---- MODULE Spec2Model ----
(***************************************************************************)
(* Model of src/app.py (QUERY BOT): the question handling block with its   *)
(* two-tier cache (summary entry + seen flag) and the per-user history     *)
(* kept in a Redis sorted set.                                             *)
(*                                                                         *)
(* Text is a sequence of code points.  One action is one Redis command or  *)
(* one Groq call of the script, so that commands of two sessions can       *)
(* interleave and a command can fail between two others.                   *)
(***************************************************************************)
EXTENDS Integers, Sequences, FiniteSets, TLC

\* ---- configuration (src/app.py:16-18) ----------------------------------
CACHE_TTL_SECONDS == 1800
\* the seen TTL written as 24 * 60: minutes taken for seconds
SEEN_TTL_MINUTES == 24 * 60

SEEN_TTL_SECONDS == 86400
HISTORY_TTL_SECONDS == 604800

\* zrevrange(key, 0, 49): index of the last element returned
HISTORY_LAST_INDEX == 49

\* ---- bounds --------------------------------------------------------------
MaxRequests == 2
MaxTicks == 1

\* ---- inputs --------------------------------------------------------------
\* the user logged in (one of VALID_USERS)
Users == {"aman"}

\* browser sessions running the script
Sessions == {1, 2}

\* what the user types in st.chat_input:
\*   "a b",  " A  b"  (case, leading blank, longer interior run),
\*   "ab" (another question),  " " (blank input)
Questions == { <<97, 32, 98>>, <<32, 65, 32, 32, 98>>, <<97, 98>>, <<32>> }

\* message.content of the full-answer completion: "F\n"
FullOutputs == { <<70, 10>> }

\* message.content of the summary completion: " ", "x\n"
SummaryOutputs == { <<32>>, <<120, 10>> }

\* how far the wall clock moves in one step
TickSteps == {1, CACHE_TTL_SECONDS, SEEN_TTL_SECONDS, HISTORY_TTL_SECONDS}

\* ---- Python text helpers -------------------------------------------------
\* Python None, as a text value
None == <<-1>>

\* str.isspace() on ASCII
IsSpace(c) == c \in {9, 10, 11, 12, 13, 28, 29, 30, 31, 32}

\* bool(x) of an Optional[str]
Truthy(x) == x # None /\ x # <<>>

RECURSIVE LStrip(_)
LStrip(t) == IF t # <<>> /\ IsSpace(Head(t)) THEN LStrip(Tail(t)) ELSE t

RECURSIVE RStrip(_)
RStrip(t) ==
    IF t # <<>> /\ IsSpace(t[Len(t)]) THEN RStrip(SubSeq(t, 1, Len(t) - 1)) ELSE t

\* str.strip()
Strip(t) == RStrip(LStrip(t))

\* str.lower() on ASCII
LowerChar(c) == IF c \in 65..90 THEN c + 32 ELSE c

Lower(t) == [i \in 1..Len(t) |-> LowerChar(t[i])]

\* str.split(): the maximal runs of non-blank characters
RECURSIVE SplitFrom(_, _, _)
SplitFrom(t, word, words) ==
    IF t = <<>>
    THEN IF word = <<>> THEN words ELSE Append(words, word)
    ELSE IF IsSpace(Head(t))
         THEN SplitFrom(Tail(t), <<>>, IF word = <<>> THEN words ELSE Append(words, word))
         ELSE SplitFrom(Tail(t), Append(word, Head(t)), words)

Split(t) == SplitFrom(t, <<>>, <<>>)

\* " ".join(words)
RECURSIVE Join(_)
Join(words) ==
    IF words = <<>> THEN <<>>
    ELSE IF Len(words) = 1 THEN words[1]
    ELSE words[1] \o <<32>> \o Join(Tail(words))

\* hashlib.sha256(cleaned).hexdigest()[:16]; the digest is taken to be
\* collision free on the texts of the model
Sha256Prefix(cleaned) == <<"sha256", cleaned>>

make_query_hash(q) == Sha256Prefix(Join(Split(Lower(Strip(q)))))

summary_cache_key(username, q_hash) == <<"cache", username, "summary", q_hash>>

seen_key(username, q_hash) == <<"cache", username, "seen", q_hash>>

history_key(username) == <<"history", username>>

\* ---- state ---------------------------------------------------------------
VARIABLES
    redis,      \* the Redis database: key -> [value, exp]
    now,        \* the wall clock, in seconds
    sess,       \* per session: the script's position and local variables, the
                \* database as it was when the question came in (before), and
                \* how the last run ended (result)
    requests,   \* questions submitted so far
    ticks       \* clock steps taken so far

vars == <<redis, now, sess, requests, ticks>>

\* a key without a time to live (a sorted set just created by zadd)
NoExpiry == -1

Idle ==
    [pc |-> "idle", user |-> "", question |-> None, cached_summary |-> None,
     has_seen_full |-> FALSE, full_text |-> None, summary_text |-> None,
     mode |-> "none", shown |-> None, calls |-> 0,
     before |-> [k \in {} |-> 0], result |-> "none"]

\* ---- Redis commands ------------------------------------------------------
Exists(db, key) == key \in DOMAIN db

\* GET key: the string, or None
Get(db, key) == IF Exists(db, key) THEN db[key].value ELSE None

\* SETEX key ttl value
Setex(db, key, ttl, value, t) == (key :> [value |-> value, exp |-> t + ttl]) @@ db

\* DEL key
Delete(db, key) == [k \in DOMAIN db \ {key} |-> db[k]]

\* ZADD key {member: score}: adds the member, or moves it when it is there;
\* the time to live of the key is kept
Zadd(db, key, member, score) ==
    LET old == IF Exists(db, key) THEN db[key] ELSE [value |-> {}, exp |-> NoExpiry]
        kept == {e \in old.value : e.member # member}
    IN  (key :> [value |-> kept \cup {[member |-> member, score |-> score]},
                 exp |-> old.exp]) @@ db

\* EXPIRE key ttl: no effect when the key is absent
Expire(db, key, ttl, t) ==
    IF Exists(db, key) THEN (key :> [value |-> db[key].value, exp |-> t + ttl]) @@ db
    ELSE db

\* the keys that are still alive at time t
Alive(db, t) ==
    [k \in {x \in DOMAIN db : db[x].exp = NoExpiry \/ db[x].exp > t} |-> db[k]]

\* json.dumps escapes of the characters of the model
JsonChar(c) ==
    CASE c = 34 -> <<92, 34>>
      [] c = 92 -> <<92, 92>>
      [] c = 10 -> <<92, 110>>
      [] c = 13 -> <<92, 114>>
      [] c = 9 -> <<92, 116>>
      [] OTHER -> <<c>>

RECURSIVE JsonString(_)
JsonString(t) ==
    IF t = <<>> THEN <<34>> ELSE JsonChar(Head(t)) \o JsonString(Tail(t))

\* the part of json.dumps(msg) that differs between two members of equal ts
JsonTail(m) == JsonString(m.question) \o JsonString(m.summary)

RECURSIVE LexLess(_, _)
LexLess(a, b) ==
    IF b = <<>> THEN FALSE
    ELSE IF a = <<>> THEN TRUE
    ELSE IF Head(a) # Head(b) THEN Head(a) < Head(b)
    ELSE LexLess(Tail(a), Tail(b))

\* the order of a sorted set: by score, then by member
ZLess(e, f) ==
    \/ e.score < f.score
    \/ e.score = f.score /\ LexLess(JsonTail(e.member), JsonTail(f.member))

\* ZREVRANGE key 0 -1: from the highest score to the lowest
RECURSIVE ZRevOrder(_)
ZRevOrder(S) ==
    IF S = {} THEN <<>>
    ELSE LET top == CHOOSE e \in S : \A f \in S \ {e} : ZLess(f, e)
         IN  <<top>> \o ZRevOrder(S \ {top})

\* ZREVRANGE key 0 last
ZRevRange(db, key, last) ==
    LET all == IF Exists(db, key) THEN ZRevOrder(db[key].value) ELSE <<>>
    IN  SubSeq(all, 1, IF Len(all) < last + 1 THEN Len(all) ELSE last + 1)

\* ---- history helpers (src/app.py:60-78) ---------------------------------
load_history(username) ==
    LET items == ZRevRange(redis, history_key(username), HISTORY_LAST_INDEX)
    IN  [i \in 1..Len(items) |-> items[i].member]

\* ---- the script, one Redis command or Groq call per action --------------
Init ==
    /\ redis = [k \in {} |-> 0]
    /\ now = 0
    /\ sess = [s \in Sessions |-> Idle]
    /\ requests = 0
    /\ ticks = 0

Set(s, r) == sess' = [sess EXCEPT ![s] = r]

\* the run of the script ends and its local variables are gone; the next run
\* waits for input
Finish(s, result) == Set(s, [Idle EXCEPT !.result = result])

\* lines 176-191: a question is typed; a blank one reruns the script
chat_input(s, u, raw) ==
    LET question == Strip(raw)
    IN  /\ sess[s].pc = "idle"
        /\ requests < MaxRequests
        /\ requests' = requests + 1
        /\ IF question = <<>>
           THEN Finish(s, "invalid")
           ELSE Set(s, [Idle EXCEPT !.pc = "get", !.user = u, !.question = question,
                                    !.before = redis, !.result = "running"])
        /\ UNCHANGED <<redis, now, ticks>>

\* line 193
get_summary(s) ==
    LET key == summary_cache_key(sess[s].user, make_query_hash(sess[s].question))
    IN  /\ sess[s].pc = "get"
        /\ Set(s, [sess[s] EXCEPT !.pc = "exists", !.cached_summary = Get(redis, key)])
        /\ UNCHANGED <<redis, now, requests, ticks>>

\* the branch taken on the Seen Flag alone
IsHitSeenOnly(cached_summary, has_seen_full) == has_seen_full

\* line 196
IsHit(cached_summary, has_seen_full) == Truthy(cached_summary) /\ has_seen_full

\* lines 194-201: the seen flag is read, then the branch is taken; the repeat
\* branch shows the cached summary
exists_seen(s) ==
    LET key == seen_key(sess[s].user, make_query_hash(sess[s].question))
        has_seen_full == Exists(redis, key)
    IN  /\ sess[s].pc = "exists"
        /\ IF IsHit(sess[s].cached_summary, has_seen_full)
           THEN Set(s, [sess[s] EXCEPT !.pc = "zadd", !.has_seen_full = has_seen_full,
                                       !.mode = "hit", !.shown = sess[s].cached_summary])
           ELSE Set(s, [sess[s] EXCEPT !.pc = "full", !.has_seen_full = has_seen_full])
        /\ UNCHANGED <<redis, now, requests, ticks>>

\* lines 210-216: the full answer
groq_full(s, out) ==
    /\ sess[s].pc = "full"
    /\ Set(s, [sess[s] EXCEPT !.pc = "summarize", !.full_text = Strip(out),
                              !.calls = @ + 1])
    /\ UNCHANGED <<redis, now, requests, ticks>>

\* lines 235-237: the call raises; st.error, then st.rerun
groq_full_error(s) ==
    /\ sess[s].pc = "full"
    /\ Finish(s, "groq_error")
    /\ UNCHANGED <<redis, now, requests, ticks>>

\* lines 219-229: the summary of the full answer
groq_summary(s, out) ==
    /\ sess[s].pc = "summarize"
    /\ Set(s, [sess[s] EXCEPT !.pc = "setex_summary", !.summary_text = Strip(out),
                              !.calls = @ + 1])
    /\ UNCHANGED <<redis, now, requests, ticks>>

\* the summary call fails and the full answer is cached in its place
groq_summary_error_caches_full(s) ==
    /\ sess[s].pc = "summarize"
    /\ redis' = Setex(redis, summary_cache_key(sess[s].user, make_query_hash(sess[s].question)),
                      CACHE_TTL_SECONDS, sess[s].full_text, now)
    /\ Finish(s, "groq_error")
    /\ UNCHANGED <<now, requests, ticks>>

groq_summary_error(s) ==
    /\ sess[s].pc = "summarize"
    /\ Finish(s, "groq_error")
    /\ UNCHANGED <<redis, now, requests, ticks>>

\* line 232
setex_summary(s) ==
    LET key == summary_cache_key(sess[s].user, make_query_hash(sess[s].question))
    IN  /\ sess[s].pc = "setex_summary"
        /\ redis' = Setex(redis, key, CACHE_TTL_SECONDS, sess[s].summary_text, now)
        /\ Set(s, [sess[s] EXCEPT !.pc = "setex_seen"])
        /\ UNCHANGED <<now, requests, ticks>>

\* lines 233, 239-243: the seen flag is set, then the full answer is shown
setex_seen(s) ==
    LET key == seen_key(sess[s].user, make_query_hash(sess[s].question))
    IN  /\ sess[s].pc = "setex_seen"
        /\ redis' = Setex(redis, key, SEEN_TTL_SECONDS, <<49>>, now)
        /\ Set(s, [sess[s] EXCEPT !.pc = "zadd", !.mode = "miss",
                                  !.shown = sess[s].full_text])
        /\ UNCHANGED <<now, requests, ticks>>

\* a miss logs the full answer in place of its summary
LoggedFullText(r) == IF r.mode = "hit" THEN r.cached_summary ELSE r.full_text

\* what save_to_history is called with: lines 204 and 246
LoggedSummary(r) == IF r.mode = "hit" THEN r.cached_summary ELSE r.summary_text

\* lines 61-69: ts = time.time(), the member is json.dumps(msg) ("time" is a
\* function of ts), the score is -ts
save_zadd(s) ==
    LET ts == now
        msg == [ts |-> ts, question |-> sess[s].question,
                summary |-> LoggedSummary(sess[s])]
    IN  /\ sess[s].pc = "zadd"
        /\ redis' = Zadd(redis, history_key(sess[s].user), msg, -ts)
        /\ Set(s, [sess[s] EXCEPT !.pc = "expire"])
        /\ UNCHANGED <<now, requests, ticks>>

\* line 70; the script ends
save_expire(s) ==
    /\ sess[s].pc = "expire"
    /\ redis' = Expire(redis, history_key(sess[s].user), HISTORY_TTL_SECONDS, now)
    /\ Finish(s, "answered")
    /\ UNCHANGED <<now, requests, ticks>>

\* the button deletes the cache entries and seen flags of the user as well
clear_history_and_cache(s, u) ==
    /\ sess[s].pc = "idle"
    /\ redis' = [k \in {x \in DOMAIN redis : x # history_key(u) /\ ~(x[1] = "cache" /\ x[2] = u)}
                   |-> redis[k]]
    /\ Finish(s, "cleared")
    /\ UNCHANGED <<now, requests, ticks>>

\* lines 77-78, 107-111: the sidebar button, for the user logged in
clear_history(s, u) ==
    /\ sess[s].pc = "idle"
    /\ redis' = Delete(redis, history_key(u))
    /\ Finish(s, "cleared")
    /\ UNCHANGED <<now, requests, ticks>>

\* time passes; Redis drops the keys whose time to live is over
Tick(d) ==
    /\ ticks < MaxTicks
    /\ ticks' = ticks + 1
    /\ now' = now + d
    /\ redis' = Alive(redis, now + d)
    /\ UNCHANGED <<sess, requests>>

\* one session at a time
Run(s) ==
    \/ \E u \in Users, raw \in Questions : chat_input(s, u, raw)
    \/ get_summary(s)
    \/ exists_seen(s)
    \/ \E out \in FullOutputs : groq_full(s, out)
    \/ groq_full_error(s)
    \/ \E out \in SummaryOutputs : groq_summary(s, out)
    \/ groq_summary_error(s)
    \/ setex_summary(s)
    \/ setex_seen(s)
    \/ save_zadd(s)
    \/ save_expire(s)
    \/ \E u \in Users : clear_history(s, u)

Next ==
    \/ Run(1)
    \/ \E d \in TickSteps : Tick(d)

Spec == Init /\ [][Next]_vars

\* ---- a Redis command raises (connection lost) --------------------------
\* lines 193-194 are outside the try: the exception ends the run
get_summary_fails(s) ==
    /\ sess[s].pc = "get"
    /\ Finish(s, "redis_error")
    /\ UNCHANGED <<redis, now, requests, ticks>>

exists_seen_fails(s) ==
    /\ sess[s].pc = "exists"
    /\ Finish(s, "redis_error")
    /\ UNCHANGED <<redis, now, requests, ticks>>

\* lines 232-237 are inside the try: except Exception, st.error, st.rerun
setex_summary_fails(s) ==
    /\ sess[s].pc = "setex_summary"
    /\ Finish(s, "redis_error")
    /\ UNCHANGED <<redis, now, requests, ticks>>

setex_seen_fails(s) ==
    /\ sess[s].pc = "setex_seen"
    /\ Finish(s, "redis_error")
    /\ UNCHANGED <<redis, now, requests, ticks>>

\* lines 69-70 are outside the try: the exception ends the run
save_zadd_fails(s) ==
    /\ sess[s].pc = "zadd"
    /\ Finish(s, "redis_error")
    /\ UNCHANGED <<redis, now, requests, ticks>>

save_expire_fails(s) ==
    /\ sess[s].pc = "expire"
    /\ Finish(s, "redis_error")
    /\ UNCHANGED <<redis, now, requests, ticks>>

RunFails(s) ==
    \/ get_summary_fails(s)
    \/ exists_seen_fails(s)
    \/ setex_summary_fails(s)
    \/ setex_seen_fails(s)
    \/ save_zadd_fails(s)
    \/ save_expire_fails(s)

NextFail ==
    \/ Run(1)
    \/ RunFails(1)
    \/ \E d \in TickSteps : Tick(d)

SpecFail == Init /\ [][NextFail]_vars

\* ---- two sessions of one user at the same time -------------------------
NextConc ==
    \/ \E s \in Sessions : Run(s)
    \/ Tick(1)

SpecConc == Init /\ [][NextConc]_vars

\* ---- vocabulary of the properties ----------------------------------------
\* positions of the script after the lookup of lines 193-196
AfterLookup == {"full", "summarize", "setex_summary", "setex_seen", "zadd", "expire"}

AllIdle == \A s \in Sessions : sess[s].pc = "idle"

SummaryKeyOf(r) == summary_cache_key(r.user, make_query_hash(r.question))

SeenKeyOf(r) == seen_key(r.user, make_query_hash(r.question))

\* the members of a user's history in database db
HistoryOf(db, u) == IF Exists(db, history_key(u)) THEN db[history_key(u)].value ELSE {}

\* key k of database db is there and outlives time t
LivesAt(db, k, t) == Exists(db, k) /\ (db[k].exp = NoExpiry \/ db[k].exp > t)

Blank(c) == c \in {9, 10, 11, 12, 13, 32}

SameLetter(c, d) ==
    \/ c = d
    \/ c \in 65..90 /\ d = c + 32
    \/ d \in 65..90 /\ c = d + 32

RECURSIVE SkipBlanks(_)
SkipBlanks(t) == IF t # <<>> /\ Blank(Head(t)) THEN SkipBlanks(Tail(t)) ELSE t

\* texts a and b differ at most in letter case, in blanks at the two ends and
\* in the length of the runs of blanks inside; edge: at the start of the text
RECURSIVE Alike(_, _, _)
Alike(a, b, edge) ==
    LET blankA == a # <<>> /\ Blank(Head(a))
        blankB == b # <<>> /\ Blank(Head(b))
        a2 == SkipBlanks(a)
        b2 == SkipBlanks(b)
    IN  IF a = <<>> /\ b = <<>> THEN TRUE
        ELSE IF blankA \/ blankB
        THEN IF edge THEN Alike(a2, b2, FALSE)
             ELSE IF a2 = <<>> \/ b2 = <<>> THEN a2 = <<>> /\ b2 = <<>>
             ELSE blankA /\ blankB /\ Alike(a2, b2, FALSE)
        ELSE /\ a # <<>>
             /\ b # <<>>
             /\ SameLetter(Head(a), Head(b))
             /\ Alike(Tail(a), Tail(b), FALSE)

\* ---- C5 ------------------------------------------------------------------
\* C5: whenever the lookup finds the Cache Entry (GET returns a string, whatever
\* it holds) and the Seen Flag, the request is a hit: the stored value is shown
\* unchanged and the model is not called.
C5_BothPresentIsHit ==
    \A s \in Sessions :
        (/\ sess[s].pc \in AfterLookup
         /\ sess[s].cached_summary # None
         /\ sess[s].has_seen_full)
        => /\ sess[s].mode = "hit"
           /\ sess[s].shown = sess[s].cached_summary
           /\ sess[s].calls = 0

\* ---- C1 ------------------------------------------------------------------
\* a miss stores what it got: the summary under the summary key for the cache
\* TTL, the flag under the seen key for the seen TTL, and shows the full answer
C1_MissStores(s) ==
    /\ (sess[s].pc = "setex_summary" /\ sess'[s].pc = "setex_seen")
       => /\ Exists(redis', SummaryKeyOf(sess[s]))
          /\ redis'[SummaryKeyOf(sess[s])] =
                [value |-> sess[s].summary_text, exp |-> now + CACHE_TTL_SECONDS]
    /\ (sess[s].pc = "setex_seen" /\ sess'[s].pc = "zadd")
       => /\ Exists(redis', SeenKeyOf(sess[s]))
          /\ redis'[SeenKeyOf(sess[s])].exp = now + SEEN_TTL_SECONDS
          /\ sess'[s].mode = "miss"
          /\ sess'[s].shown = sess[s].full_text
          /\ sess[s].calls = 2

\* the question looked up is a hit on the entry of every question q it is
\* alike: when the Cache Entry and the Seen Flag of q were there as the question
\* came in and their TTL has not elapsed at the lookup, the stored summary is
\* shown and the model is not called
C1_AlikeHits(s) ==
    (sess[s].pc = "exists" /\ sess'[s].pc # "exists") =>
        \A raw \in Questions :
            LET q == Strip(raw)
                ck == summary_cache_key(sess[s].user, make_query_hash(q))
                sk == seen_key(sess[s].user, make_query_hash(q))
            IN  (/\ q # <<>>
                 /\ Alike(q, sess[s].question, TRUE)
                 /\ LivesAt(sess[s].before, ck, now)
                 /\ LivesAt(sess[s].before, sk, now))
                => /\ sess'[s].mode = "hit"
                   /\ sess'[s].shown = sess[s].before[ck].value
                   /\ sess'[s].calls = 0

\* C1: handling q with both model calls succeeding is a miss that shows the
\* full answer and stores the summary Cache Entry and the Seen Flag; handling
\* next, before the cache TTL elapses, a q' that differs from q only in letter
\* case and blanks is a hit that shows the stored summary without a model call.
C1_MissThenAlikeHit ==
    [][\A s \in Sessions : C1_MissStores(s) /\ C1_AlikeHits(s)]_vars

\* ---- C3 ------------------------------------------------------------------
Min(a, b) == IF a < b THEN a ELSE b

\* C3: with n records of distinct timestamps in a user's history, load_history
\* returns min(n, 50) records, newest first, and they are the min(n, 50) newest.
C3_NewestFirst ==
    \A u \in Users :
        LET H == {e.member : e \in HistoryOf(redis, u)}
            h == load_history(u)
            shown == {h[i] : i \in 1..Len(h)}
        IN  (\A m1, m2 \in H : m1 # m2 => m1.ts # m2.ts)
            => /\ Len(h) = Min(Cardinality(H), HISTORY_LAST_INDEX + 1)
               /\ \A i, j \in 1..Len(h) : i < j => h[i].ts > h[j].ts
               /\ shown \subseteq H
               /\ \A m \in shown, o \in H \ shown : m.ts > o.ts

\* ---- C2 ------------------------------------------------------------------
\* C2: when the full-answer call or the summary call fails, the run ends with
\* the database as it was when the question came in (but for the keys whose TTL
\* ran out meanwhile): no Cache Entry, Seen Flag or History Record is written
\* and no expiry is changed.
C2_GroqErrorWritesNothing ==
    [][\A s \in Sessions :
          (sess[s].pc \in {"full", "summarize"} /\ sess'[s].result = "groq_error")
          => redis' = Alive(sess[s].before, now')]_vars

\* a model call has failed for a user who has a Cache Entry, a Seen Flag and a
\* history
C2_Witness ==
    \E s \in Sessions, u \in Users :
        /\ sess[s].result = "groq_error"
        /\ Exists(redis, history_key(u))
        /\ \E raw \in Questions :
              /\ Exists(redis, summary_cache_key(u, make_query_hash(Strip(raw))))
              /\ Exists(redis, seen_key(u, make_query_hash(Strip(raw))))

\* ---- C4 ------------------------------------------------------------------
\* the cache entries and seen flags of user u in database db
CacheKeysOf(db, u) == {k \in DOMAIN db : k[1] = "cache" /\ k[2] = u}

\* C4, as claimed: after the clear of user u the history of u reads as empty
\* and the cache entries and seen flags of u are gone.
C4_ClearRemovesCache ==
    [][\A s \in Sessions, u \in Users :
          clear_history(s, u)
          => /\ load_history(u)' = <<>>
             /\ CacheKeysOf(redis', u) = {}]_vars

\* C4, amended: after the clear of user u the history of u reads as empty, and
\* every other key, the cache entries and seen flags of u among them, is what
\* it was, with its expiry.
C4_ClearRemovesHistoryOnly ==
    [][\A s \in Sessions, u \in Users :
          clear_history(s, u)
          => /\ load_history(u)' = <<>>
             /\ ~Exists(redis', history_key(u))
             /\ \A k \in DOMAIN redis \ {history_key(u)} :
                   Exists(redis', k) /\ redis'[k] = redis[k]]_vars

\* the question asked after a clear is a hit on the entry cached before it:
\* the history was empty as the question came in, the summary is shown
C4_Witness ==
    \E s \in Sessions :
        /\ sess[s].pc = "zadd"
        /\ sess[s].mode = "hit"
        /\ ~Exists(sess[s].before, history_key(sess[s].user))
        /\ Exists(sess[s].before, SummaryKeyOf(sess[s]))

\* ---- C6 ------------------------------------------------------------------
\* C6: when a Redis command of a run fails, the run ends with none of its
\* writes committed: the database is as it was when the question came in (but
\* for the keys whose TTL ran out meanwhile).
C6_RedisErrorWritesNothing ==
    [][\A s \in Sessions :
          (sess[s].result = "running" /\ sess'[s].result = "redis_error")
          => redis' = Alive(sess[s].before, now')]_vars

\* ---- C7 ------------------------------------------------------------------
\* the record an answered request is to log: the question and the summary (the
\* cached one on a hit, the new one on a miss), at the time of the append
C7_Record(r, t) ==
    [ts |-> t, question |-> r.question,
     summary |-> IF r.mode = "hit" THEN r.cached_summary ELSE r.summary_text]

\* C7: every answered request (a hit, or a miss whose two model calls
\* succeeded) appends one record with the question and the summary to the
\* history of its user, one more record than before when no record has its
\* timestamp, and then sets the expiry of the whole history to the history TTL
\* from now; no other step of the request touches the history.
C7_OneRecordPerAnswer ==
    [][\A s \in Sessions :
          LET u == sess[s].user
              H == HistoryOf(redis, u)
              rec == C7_Record(sess[s], now)
          IN  /\ (sess[s].mode \in {"hit", "miss"}) => sess[s].pc \in {"zadd", "expire"}
              /\ (sess'[s].result = "answered" /\ sess[s].result = "running")
                 => sess[s].pc = "expire"
              /\ (sess[s].pc = "zadd" /\ sess'[s].pc = "expire")
                 => /\ HistoryOf(redis', u) = H \cup {[member |-> rec, score |-> -now]}
                    /\ (\A e \in H : e.member.ts # now)
                       => Cardinality(HistoryOf(redis', u)) = Cardinality(H) + 1
              /\ (sess[s].pc = "expire" /\ sess'[s].pc = "idle" /\ Exists(redis, history_key(u)))
                 => redis'[history_key(u)] =
                       [value |-> H, exp |-> now + HISTORY_TTL_SECONDS]
              /\ (sess[s].pc \in {"get", "exists", "full", "summarize",
                                   "setex_summary", "setex_seen"} /\ now' = now)
                 => HistoryOf(redis', u) = H]_vars

\* a hit has appended the second record of a history
C7_Witness ==
    \E s \in Sessions :
        /\ sess[s].pc = "expire"
        /\ sess[s].mode = "hit"
        /\ Cardinality(HistoryOf(redis, sess[s].user)) = 2
        /\ \E e \in HistoryOf(redis, sess[s].user) :
              e.member = C7_Record(sess[s], now)

\* ---- C8 ------------------------------------------------------------------
\* the fingerprints of the questions of the model
Hashes == {make_query_hash(Strip(raw)) : raw \in Questions}

\* key k is the same in databases db1 and db2: absent, or there with one
\* value and one expiry
SameKey(db1, db2, k) ==
    /\ Exists(db1, k) <=> Exists(db2, k)
    /\ Exists(db1, k) => db1[k] = db2[k]

\* between requests a Cache Entry ends at least (seen TTL - cache TTL) before
\* its Seen Flag: from (set time of the flag + cache TTL) on the entry is gone,
\* and the flag is there until (set time + seen TTL)
C8_EntryEndsBeforeFlag ==
    AllIdle =>
        \A u \in Users, h \in Hashes :
            (Exists(redis, summary_cache_key(u, h)) /\ Exists(redis, seen_key(u, h)))
            => redis[summary_cache_key(u, h)].exp + (SEEN_TTL_SECONDS - CACHE_TTL_SECONDS)
                  <= redis[seen_key(u, h)].exp

C9_BothMissesLogged ==
    \A s, t \in Sessions :
        (/\ s # t
         /\ sess[s].pc = "expire" /\ sess[s].mode = "miss"
         /\ sess[t].pc = "expire" /\ sess[t].mode = "miss"
         /\ sess[s].user = sess[t].user
         /\ SummaryKeyOf(sess[s]) = SummaryKeyOf(sess[t])
         /\ sess[s].cached_summary = None
         /\ sess[t].cached_summary = None)
        => /\ Exists(redis, SummaryKeyOf(sess[s]))
           /\ Exists(redis, SeenKeyOf(sess[s]))
           /\ redis[SummaryKeyOf(sess[s])].value
                 \in {sess[s].summary_text, sess[t].summary_text}
           /\ Cardinality(HistoryOf(redis, sess[s].user)) >=
                 Cardinality(HistoryOf(sess[s].before, sess[s].user)) + 2

\* ---- C10 -----------------------------------------------------------------
\* C10: between requests, a Cache Entry that is there has its Seen Flag there
\* too, so that 'entry and flag present' is the same as 'entry present'.
C10_EntryImpliesFlag ==
    AllIdle =>
        \A u \in Users, h \in Hashes :
            Exists(redis, summary_cache_key(u, h)) => Exists(redis, seen_key(u, h))

\* between requests, after time has passed: one entry with its flag, and one
\* flag whose entry has expired
C10_Witness ==
    /\ AllIdle
    /\ now > 0
    /\ \E u \in Users, h \in Hashes :
          Exists(redis, summary_cache_key(u, h)) /\ Exists(redis, seen_key(u, h))
    /\ \E u \in Users, h \in Hashes :
          ~Exists(redis, summary_cache_key(u, h)) /\ Exists(redis, seen_key(u, h))

====
